---- MODULE Spec2Model ----
(***************************************************************************)
(* Model of find_duplicates_e_drive.py: the duplicate finder and mover.    *)
(*                                                                         *)
(* Strings (paths, directory names) are sequences of code points, so that  *)
(* len(p), the lexicographic order of paths, str.lower() and the drive of  *)
(* a path are computed as Python computes them.  File contents are         *)
(* sequences of bytes.  A digest is the pair <<algorithm, bytes hashed>>   *)
(* (the hash functions are taken to be collision free on the model's       *)
(* contents) and the empty sequence << >> is the empty string "" that      *)
(* partial_hash and full_hash return on an I/O error.                      *)
(*                                                                         *)
(* Three specifications:                                                   *)
(*   Spec        scan_files followed by find_duplicates (main, 197-198)    *)
(*   SpecMove    move_duplicates over a list of duplicate groups           *)
(*   SpecKeeper  pick_keeper on the orderings of one group                 *)
(***************************************************************************)
EXTENDS Integers, Sequences, FiniteSets, TLC

\* ---------------------------------------------------------------- bounds
\* I/O failures (stat, open/read, getsize, move) the environment injects
\* into one run
MaxFailures == 2
\* longest group handed to pick_keeper / move_duplicates
MaxGroup == 3
\* most groups handed to move_duplicates
MaxGroups == 2

\* chunk_size of partial_hash (8192 in the source), scaled to the model's
\* contents of at most two bytes
PartialChunk == 1

VARIABLES
    \* --- the file system and the arguments of the run
    content,          \* content[p]: the bytes of the file at path p
    min_size,         \* args.min_size
    \* --- scan_files / find_duplicates
    pc,               \* position of main
    todo,             \* os.walk: directories still to yield, in order
    size_map,         \* dict size -> list of paths, keys in insertion order
    candidates,       \* candidates.items() still to iterate (line 101)
    duplicate_groups, \* list of lists of paths
    statFail,         \* paths whose os.stat raised
    phFail,           \* paths whose partial_hash returned ""
    fhFail,           \* paths whose full_hash returned ""
    fullHashCalls,    \* fullHashCalls[p]: number of calls full_hash(p)
    failures,         \* number of I/O failures injected so far
    \* --- move_duplicates
    dry_run,          \* not args.move
    gid,              \* enumerate(duplicate_groups, 1): next group
    rows,             \* rows written to the CSV report after the header
    moved,            \* source paths shutil.move has relocated
    failedMovers,     \* movers whose handling failed (relpath, makedirs, move)
    skippedGroups,    \* gids skipped because getsize(keeper) raised
    \* --- pick_keeper alone
    kGroup,           \* the group, in its current order
    kFirst,           \* pick_keeper's result on the first order
    kLast             \* pick_keeper's result on the current order

scanVars == <<content, min_size, todo, size_map, candidates, statFail,
              phFail, fhFail, fullHashCalls>>
moveVars == <<dry_run, gid, rows, moved, failedMovers, skippedGroups>>
keeperVars == <<kGroup, kFirst, kLast>>
vars == <<pc, duplicate_groups, failures, scanVars, moveVars, keeperVars>>

\* ------------------------------------------------------- generic helpers
Min(a, b) == IF a < b THEN a ELSE b

SeqToSet(s) == { s[i] : i \in 1..Len(s) }

\* number of positions of s holding x
Count(s, x) == Cardinality({ i \in 1..Len(s) : s[i] = x })

RECURSIVE Flatten(_)
Flatten(ss) == IF ss = <<>> THEN <<>> ELSE Head(ss) \o Flatten(Tail(ss))

\* sequences without repetition, of length lo..hi, over the set S
DistinctSeqs(S, lo, hi) ==
    { s \in UNION { [1..n -> S] : n \in lo..hi } :
        \A i, j \in 1..Len(s) : i # j => s[i] # s[j] }

\* ------------------------------------------------------------- strings
\* str.lower() on one code point: 'A'..'Z' (65..90) -> 'a'..'z'
LowerChar(c) == IF c >= 65 /\ c <= 90 THEN c + 32 ELSE c

Lower(s) == [ i \in 1..Len(s) |-> LowerChar(s[i]) ]

\* the backslash is code point 92
RECURSIVE SplitAcc(_, _, _)
SplitAcc(s, cur, acc) ==
    IF s = <<>> THEN (IF cur = <<>> THEN acc ELSE Append(acc, cur))
    ELSE IF Head(s) = 92
         THEN SplitAcc(Tail(s), <<>>, IF cur = <<>> THEN acc ELSE Append(acc, cur))
         ELSE SplitAcc(Tail(s), Append(cur, Head(s)), acc)

\* Path(dirpath).parts: the components of the path between separators
\* (the anchor "E:\" is the component "E:" here; neither is a skip name)
Parts(dirpath) == SplitAcc(dirpath, <<>>, <<>>)

\* os.path.join(dirpath, fname)
Join(dirpath, fname) ==
    IF dirpath # <<>> /\ dirpath[Len(dirpath)] = 92
    THEN dirpath \o fname
    ELSE dirpath \o <<92>> \o fname

\* str < str: lexicographic on code points
RECURSIVE StrLess(_, _)
StrLess(a, b) ==
    IF b = <<>> THEN FALSE
    ELSE IF a = <<>> THEN TRUE
    ELSE IF Head(a) # Head(b) THEN Head(a) < Head(b)
    ELSE StrLess(Tail(a), Tail(b))

\* --------------------------------------------------------- configuration
SOURCE_ROOT == <<69, 58, 92>>       \* E:\

SKIP_DIRS == {
    <<119, 105, 110, 100, 111, 119, 115>>,  \* windows
    <<36, 114, 101, 99, 121, 99, 108, 101, 46, 98, 105, 110>>,  \* $recycle.bin
    <<115, 121, 115, 116, 101, 109, 32, 118, 111, 108, 117, 109, 101, 32, 105,
      110, 102, 111, 114, 109, 97, 116, 105, 111, 110>>,  \* system volume information
    <<36, 119, 105, 110, 100, 111, 119, 115, 46, 126, 98, 116>>,  \* $windows.~bt
    <<36, 119, 105, 110, 100, 111, 119, 115, 46, 126, 119, 115>>,  \* $windows.~ws
    <<114, 101, 99, 111, 118, 101, 114, 121>>,  \* recovery
    <<112, 114, 111, 103, 114, 97, 109, 32, 102, 105, 108, 101, 115>>,  \* program files
    <<112, 114, 111, 103, 114, 97, 109, 32, 102, 105, 108, 101, 115, 32, 40,
      120, 56, 54, 41>>,  \* program files (x86)
    <<112, 114, 111, 103, 114, 97, 109, 100, 97, 116, 97>>,  \* programdata
    <<110, 111, 114, 116, 111, 110, 32, 115, 97, 110, 100, 98, 111, 120>> }  \* norton sandbox

\* ------------------------------------------------------- the file system
\* The tree under SOURCE_ROOT that os.walk traverses:
\*     E:\            a  b
\*     E:\d           a  c
\*     E:\Windows     (no files)
\*     E:\Windows\s   a
\* os.walk yields every directory it can list, top-down; a directory it
\* cannot list is not part of this tree.
TreeEntry(dirpath) ==
    CASE dirpath = <<69, 58, 92>> ->
           [dirnames |-> << <<100>>, <<87, 105, 110, 100, 111, 119, 115>> >>,
            filenames |-> << <<97>>, <<98>> >>]
      [] dirpath = <<69, 58, 92, 100>> ->
           [dirnames |-> <<>>, filenames |-> << <<97>>, <<99>> >>]
      [] dirpath = <<69, 58, 92, 87, 105, 110, 100, 111, 119, 115>> ->
           [dirnames |-> << <<115>> >>, filenames |-> <<>>]
      [] dirpath = <<69, 58, 92, 87, 105, 110, 100, 111, 119, 115, 92, 115>> ->
           [dirnames |-> <<>>, filenames |-> << <<97>> >>]

AllDirs == { <<69, 58, 92>>, <<69, 58, 92, 100>>,
             <<69, 58, 92, 87, 105, 110, 100, 111, 119, 115>>,
             <<69, 58, 92, 87, 105, 110, 100, 111, 119, 115, 92, 115>> }

\* the paths of the files of one directory, in listing order
FilePaths(dirpath) ==
    [ i \in 1..Len(TreeEntry(dirpath).filenames) |->
        Join(dirpath, TreeEntry(dirpath).filenames[i]) ]

\* every file under SOURCE_ROOT
AllFiles == UNION { SeqToSet(FilePaths(d)) : d \in AllDirs }

\* the contents a file can have: one 1-byte content, and three 2-byte
\* contents of which two share their first PartialChunk bytes
Contents == { <<0>>, <<0, 0>>, <<0, 1>>, <<1, 0>> }

MinSizes == { 1, 2 }

\* st.st_size
FileSize(p) == Len(content[p])

\* ------------------------------------------------------------ the hashes
\* partial_hash(path): md5 of the first chunk_size bytes, "" on OSError.
\* fail: the paths that cannot be opened or read
partial_hash(path, fail) ==
    IF path \in fail THEN <<>>
    ELSE <<"md5", SubSeq(content[path], 1, Min(Len(content[path]), PartialChunk))>>

\* full_hash(path): sha256 of the whole file, "" on OSError
full_hash(path, fail) ==
    IF path \in fail THEN <<>>
    ELSE <<"sha256", content[path]>>

\* should_skip(dirpath)
should_skip(dirpath) ==
    LET parts == Parts(dirpath)
    IN  \E i \in 1..Len(parts) : Lower(parts[i]) \in SKIP_DIRS

\* defaultdict(list): d[k].append(v); a dict is the sequence of its items
\* [key, val] in insertion order
RECURSIVE DictAppend(_, _, _)
DictAppend(d, k, v) ==
    IF d = <<>> THEN << [key |-> k, val |-> <<v>>] >>
    ELSE IF Head(d).key = k
         THEN << [key |-> k, val |-> Append(Head(d).val, v)] >> \o Tail(d)
         ELSE << Head(d) >> \o DictAppend(Tail(d), k, v)

\* ------------------------------------------------------------ scan_files
\* lines 81-91: the files of one directory; fail: the paths whose stat raises
RECURSIVE StatFiles(_, _, _)
StatFiles(fpaths, fail, smap) ==
    IF fpaths = <<>> THEN smap
    ELSE LET fpath == Head(fpaths) IN
         StatFiles(Tail(fpaths), fail,
                   IF fpath \notin fail /\ FileSize(fpath) >= min_size
                   THEN DictAppend(smap, FileSize(fpath), fpath)
                   ELSE smap)

\* the sub-directories os.walk descends into after yielding dirpath
ChildDirs(dirpath) ==
    [ i \in 1..Len(TreeEntry(dirpath).dirnames) |->
        Join(dirpath, TreeEntry(dirpath).dirnames[i]) ]

\* lines 77-91: one iteration of the os.walk loop
WalkDir ==
    /\ pc = "scan"
    /\ todo # <<>>
    /\ LET dirpath == Head(todo) IN
       IF should_skip(dirpath)
       THEN \* dirnames.clear(); continue
            /\ todo' = Tail(todo)
            /\ UNCHANGED <<size_map, statFail, failures>>
       ELSE \E fail \in SUBSET SeqToSet(FilePaths(dirpath)) :
              /\ failures + Cardinality(fail) <= MaxFailures
              /\ size_map' = StatFiles(FilePaths(dirpath), fail, size_map)
              /\ statFail' = statFail \cup fail
              /\ failures' = failures + Cardinality(fail)
              /\ todo' = ChildDirs(dirpath) \o Tail(todo)
    /\ UNCHANGED <<pc, content, min_size, candidates, duplicate_groups,
                   phFail, fhFail, fullHashCalls, moveVars, keeperVars>>

\* ------------------------------------------------------- find_duplicates
\* (mutation of Candidates: "len(paths) > 2" in line 98)
CandidatesOverTwo(smap) == SelectSeq(smap, LAMBDA it : Len(it.val) > 2)

\* line 98: the items of size_map with more than one path
Candidates(smap) == SelectSeq(smap, LAMBDA it : Len(it.val) > 1)

\* lines 92-99: scan_files returns, find_duplicates starts
ScanReturn ==
    /\ pc = "scan"
    /\ todo = <<>>
    /\ pc' = "find"
    /\ candidates' = Candidates(size_map)
    /\ duplicate_groups' = <<>>
    /\ UNCHANGED <<content, min_size, todo, size_map, statFail, phFail,
                   fhFail, fullHashCalls, failures, moveVars, keeperVars>>

\* (mutation of PartialMap: an unreadable file ends the loop, "break" for
\* the skip of line 106)
RECURSIVE PartialMapBreak(_, _, _)
PartialMapBreak(paths, fail, pmap) ==
    IF paths = <<>> THEN pmap
    ELSE LET ph == partial_hash(Head(paths), fail) IN
         IF ph # <<>>
         THEN PartialMapBreak(Tail(paths), fail, DictAppend(pmap, ph, Head(paths)))
         ELSE pmap

\* lines 104-107: pass 2 over the paths of one size bucket;
\* fail: the paths whose partial_hash returns ""
RECURSIVE PartialMap(_, _, _)
PartialMap(paths, fail, pmap) ==
    IF paths = <<>> THEN pmap
    ELSE LET ph == partial_hash(Head(paths), fail) IN
         PartialMap(Tail(paths), fail,
                    IF ph # <<>> THEN DictAppend(pmap, ph, Head(paths)) ELSE pmap)

\* (mutation of Pass3Lists: lines 111-112 dropped, every list is full-hashed)
Pass3ListsAll(pmap) == [ i \in 1..Len(pmap) |-> pmap[i].val ]

\* lines 110-112: the lists of partial_map that pass 3 full-hashes
Pass3Lists(pmap) ==
    LET kept == SelectSeq(pmap, LAMBDA it : ~(Len(it.val) < 2))
    IN  [ i \in 1..Len(kept) |-> kept[i].val ]

\* (mutation of FullMap: the list is keyed by the partial digest again, the
\* full digest is only tested for "")
RECURSIVE FullMapByPartial(_, _, _)
FullMapByPartial(plist, fail, fmap) ==
    IF plist = <<>> THEN fmap
    ELSE LET fh == full_hash(Head(plist), fail) IN
         FullMapByPartial(Tail(plist), fail,
                 IF fh # <<>>
                 THEN DictAppend(fmap, partial_hash(Head(plist), {}), Head(plist))
                 ELSE fmap)

\* lines 113-117: full_map of one list; fail: the paths whose full_hash
\* returns ""
RECURSIVE FullMap(_, _, _)
FullMap(plist, fail, fmap) ==
    IF plist = <<>> THEN fmap
    ELSE LET fh == full_hash(Head(plist), fail) IN
         FullMap(Tail(plist), fail,
                 IF fh # <<>> THEN DictAppend(fmap, fh, Head(plist)) ELSE fmap)

\* lines 118-120: the lists of full_map appended to duplicate_groups
Confirmed(fmap) ==
    LET kept == SelectSeq(fmap, LAMBDA it : Len(it.val) >= 2)
    IN  [ i \in 1..Len(kept) |-> kept[i].val ]

\* (mutation of Pass3: full_map is created once, before the loop of line
\* 110, and keeps the entries of the earlier lists)
RECURSIVE Pass3StaleAcc(_, _, _)
Pass3StaleAcc(plists, fail, fmap) ==
    IF plists = <<>> THEN <<>>
    ELSE LET fm == FullMap(Head(plists), fail, fmap) IN
         Confirmed(fm) \o Pass3StaleAcc(Tail(plists), fail, fm)

Pass3Stale(plists, fail) == Pass3StaleAcc(plists, fail, <<>>)

\* lines 110-120 over the lists that reach pass 3
RECURSIVE Pass3(_, _)
Pass3(plists, fail) ==
    IF plists = <<>> THEN <<>>
    ELSE Confirmed(FullMap(Head(plists), fail, <<>>)) \o Pass3(Tail(plists), fail)

\* lines 101-120: one iteration of the loop over candidates.items()
ResolveBucket ==
    /\ pc = "find"
    /\ candidates # <<>>
    /\ LET paths == Head(candidates).val IN
       \E pfail \in SUBSET SeqToSet(paths) :
         /\ failures + Cardinality(pfail) <= MaxFailures
         /\ LET plists == Pass3Lists(PartialMap(paths, pfail, <<>>))
                hashed == Flatten(plists)
            IN  \E ffail \in SUBSET SeqToSet(hashed) :
                  /\ failures + Cardinality(pfail) + Cardinality(ffail) <= MaxFailures
                  /\ duplicate_groups' = duplicate_groups \o Pass3(plists, ffail)
                  /\ fullHashCalls' = [ p \in AllFiles |->
                                          fullHashCalls[p] + Count(hashed, p) ]
                  /\ phFail' = phFail \cup pfail
                  /\ fhFail' = fhFail \cup ffail
                  /\ failures' = failures + Cardinality(pfail) + Cardinality(ffail)
    /\ candidates' = Tail(candidates)
    /\ UNCHANGED <<pc, content, min_size, todo, size_map, statFail,
                   moveVars, keeperVars>>

\* lines 122-123: find_duplicates returns
FindReturn ==
    /\ pc = "find"
    /\ candidates = <<>>
    /\ pc' = "found"
    /\ UNCHANGED <<duplicate_groups, failures, scanVars, moveVars, keeperVars>>

\* ----------------------------------------------------------- pick_keeper
\* (mutation of KeyLess: the key is len(p) alone)
KeyLessLen(p, q) == Len(p) < Len(q)

\* (len(p), p) < (len(q), q)
KeyLess(p, q) ==
    \/ Len(p) < Len(q)
    \/ Len(p) = Len(q) /\ StrLess(p, q)

\* sorted() is stable: x goes after the elements that are not greater
RECURSIVE InsertSorted(_, _)
InsertSorted(x, s) ==
    IF s = <<>> THEN <<x>>
    ELSE IF KeyLess(x, Head(s)) THEN <<x>> \o s
    ELSE <<Head(s)>> \o InsertSorted(x, Tail(s))

RECURSIVE SortedAcc(_, _)
SortedAcc(group, acc) ==
    IF group = <<>> THEN acc
    ELSE SortedAcc(Tail(group), InsertSorted(Head(group), acc))

\* sorted(group, key=lambda p: (len(p), p))
Sorted(group) == SortedAcc(group, <<>>)

\* (mutation of pick_keeper: the movers are group_sorted, keeper included)
pick_keeper_all(group) ==
    LET group_sorted == Sorted(group)
    IN  [keeper |-> group_sorted[1], movers |-> group_sorted]

\* pick_keeper(group): (group_sorted[0], group_sorted[1:])
pick_keeper(group) ==
    LET group_sorted == Sorted(group)
    IN  [keeper |-> group_sorted[1], movers |-> Tail(group_sorted)]

\* ------------------------------------------------------- move_duplicates
\* os.path.relpath(src, "C:\\") (ntpath): ValueError when src is on
\* another drive than C:
relpath_raises(src) == Lower(SubSeq(src, 1, 2)) # <<99, 58>>

\* a report row; of the five columns the destination and size_bytes are
\* left out
Row(g, action, path) == [group |-> g, action |-> action, original_path |-> path]

\* lines 156-173: the loop over the movers of group g.
\* fail: the movers whose makedirs or shutil.move raises OSError; moving a
\* source that is no longer at its path raises OSError as well.
\* st: [rows, moved, failed, raised]; raised: an exception left the loop
RECURSIVE MoverLoop(_, _, _, _, _)
MoverLoop(g, movers, dry, fail, st) ==
    IF movers = <<>> THEN st
    ELSE LET src == Head(movers) IN
         IF relpath_raises(src)
         THEN \* ValueError is not caught: it leaves move_duplicates
              [st EXCEPT !.failed = @ \cup {src}, !.raised = TRUE]
         ELSE IF dry
         THEN MoverLoop(g, Tail(movers), dry, fail,
                        [st EXCEPT !.rows = Append(@, Row(g, "WOULD_MOVE", src))])
         ELSE IF src \in fail \/ src \in st.moved
         THEN MoverLoop(g, Tail(movers), dry, fail,
                        [st EXCEPT !.rows = Append(@, Row(g, "ERROR", src)),
                                   !.failed = @ \cup {src}])
         ELSE MoverLoop(g, Tail(movers), dry, fail,
                        [st EXCEPT !.rows = Append(@, Row(g, "MOVED", src)),
                                   !.moved = @ \cup {src}])

\* lines 146-173: one iteration of the loop over the groups
MoveGroup ==
    /\ pc = "move"
    /\ gid <= Len(duplicate_groups)
    /\ LET pk == pick_keeper(duplicate_groups[gid]) IN
       \/ \* os.path.getsize(keeper) raises: continue
          /\ failures < MaxFailures
          /\ failures' = failures + 1
          /\ skippedGroups' = skippedGroups \cup {gid}
          /\ gid' = gid + 1
          /\ UNCHANGED <<pc, rows, moved, failedMovers>>
       \/ \E fail \in SUBSET SeqToSet(pk.movers) :
            /\ dry_run => fail = {}
            /\ failures + Cardinality(fail) <= MaxFailures
            /\ LET st == MoverLoop(gid, pk.movers, dry_run, fail,
                                   [rows |-> Append(rows, Row(gid, "KEEP", pk.keeper)),
                                    moved |-> moved,
                                    failed |-> failedMovers,
                                    raised |-> FALSE])
               IN  /\ rows' = st.rows
                   /\ moved' = st.moved
                   /\ failedMovers' = st.failed
                   /\ pc' = IF st.raised THEN "aborted" ELSE pc
                   /\ gid' = IF st.raised THEN gid ELSE gid + 1
            /\ failures' = failures + Cardinality(fail)
            /\ UNCHANGED skippedGroups
    /\ UNCHANGED <<duplicate_groups, dry_run, scanVars, keeperVars>>

\* lines 175-178: move_duplicates returns report_path
MoveReturn ==
    /\ pc = "move"
    /\ gid > Len(duplicate_groups)
    /\ pc' = "done"
    /\ UNCHANGED <<duplicate_groups, failures, scanVars, moveVars, keeperVars>>

\* ------------------------------------------------- pick_keeper on its own
NoResult == [set |-> FALSE, group |-> <<>>, keeper |-> <<>>, movers |-> <<>>]

\* the value pick_keeper returned for the argument group
Result(group) ==
    [set |-> TRUE, group |-> group,
     keeper |-> pick_keeper(group).keeper, movers |-> pick_keeper(group).movers]

\* the caller hands the same group over in another order
Permute ==
    /\ pc = "keeper"
    /\ kLast # NoResult
    /\ \E i, j \in 1..Len(kGroup) :
         /\ i < j
         /\ kGroup' = [kGroup EXCEPT ![i] = kGroup[j], ![j] = kGroup[i]]
    /\ kLast' = NoResult
    /\ UNCHANGED <<pc, duplicate_groups, failures, kFirst, scanVars, moveVars>>

\* pick_keeper(kGroup)
PickKeeper ==
    /\ pc = "keeper"
    /\ kLast = NoResult
    /\ kLast' = Result(kGroup)
    /\ kFirst' = IF kFirst = NoResult THEN Result(kGroup) ELSE kFirst
    /\ UNCHANGED <<pc, duplicate_groups, failures, kGroup, scanVars, moveVars>>

\* ------------------------------------------------------ specifications
\* the paths of the groups handed to move_duplicates and pick_keeper:
\* a, b, c, ab, d\a, d\c under the scanned root
RelFiles == { <<97>>, <<98>>, <<99>>, <<97, 98>>, <<100, 92, 97>>, <<100, 92, 99>> }

Roots == { <<67, 58, 92>>, <<69, 58, 92>> }     \* C:\  E:\

Universe(root) == { Join(root, rel) : rel \in RelFiles }

\* lists of at most n pairwise disjoint groups over the paths U, each of
\* 2..MaxGroup distinct paths, as find_duplicates returns them
RECURSIVE GroupLists(_, _)
GroupLists(U, n) ==
    IF n = 0 THEN { <<>> }
    ELSE LET shorter == GroupLists(U, n - 1) IN
         shorter \cup
         UNION { { Append(l, g) :
                     g \in DistinctSeqs(U \ SeqToSet(Flatten(l)), 2, MaxGroup) } :
                 l \in { x \in shorter : Len(x) = n - 1 } }

IdleScan ==
    /\ content = [ p \in AllFiles |-> <<0>> ]
    /\ min_size = 1
    /\ todo = <<>>
    /\ size_map = <<>>
    /\ candidates = <<>>
    /\ statFail = {}
    /\ phFail = {}
    /\ fhFail = {}
    /\ fullHashCalls = [ p \in AllFiles |-> 0 ]

IdleMove ==
    /\ dry_run = TRUE
    /\ gid = 1
    /\ rows = <<>>
    /\ moved = {}
    /\ failedMovers = {}
    /\ skippedGroups = {}

IdleKeeper ==
    /\ kGroup = <<>>
    /\ kFirst = NoResult
    /\ kLast = NoResult

\* main, lines 197-198: scan_files(args.source, min_size) is about to run
Init ==
    /\ pc = "scan"
    /\ content \in [AllFiles -> Contents]
    /\ min_size \in MinSizes
    /\ todo = <<SOURCE_ROOT>>
    /\ size_map = <<>>
    /\ candidates = <<>>
    /\ duplicate_groups = <<>>
    /\ statFail = {}
    /\ phFail = {}
    /\ fhFail = {}
    /\ fullHashCalls = [ p \in AllFiles |-> 0 ]
    /\ failures = 0
    /\ IdleMove
    /\ IdleKeeper

Next == WalkDir \/ ScanReturn \/ ResolveBucket \/ FindReturn

Spec == Init /\ [][Next]_vars

\* main, line 212: move_duplicates(duplicate_groups, args.dest, dry_run)
\* is about to run its loop: the staging root and the report file were
\* created (lines 135-144)
InitMove ==
    /\ pc = "move"
    /\ \E root \in Roots :
         duplicate_groups \in
           { l \in GroupLists(Universe(root), MaxGroups) : l # <<>> }
    /\ dry_run \in BOOLEAN
    /\ gid = 1
    /\ rows = <<>>
    /\ moved = {}
    /\ failedMovers = {}
    /\ skippedGroups = {}
    /\ failures = 0
    /\ IdleScan
    /\ IdleKeeper

NextMove == MoveGroup \/ MoveReturn

SpecMove == InitMove /\ [][NextMove]_vars

\* pick_keeper is about to be applied to a group of distinct paths
InitKeeper ==
    /\ pc = "keeper"
    /\ kGroup \in DistinctSeqs(Universe(SOURCE_ROOT), 1, MaxGroup)
    /\ kFirst = NoResult
    /\ kLast = NoResult
    /\ duplicate_groups = <<>>
    /\ failures = 0
    /\ IdleScan
    /\ IdleMove

NextKeeper == Permute \/ PickKeeper

SpecKeeper == InitKeeper /\ [][NextKeeper]_vars

\* =================================================================
\* Properties of scan_files followed by find_duplicates (Spec)
\* =================================================================
\* the paths scan_files put into size_map
InSizeMap(p) == \E i \in 1..Len(size_map) : p \in SeqToSet(size_map[i].val)

\* p and q are in the list of one size
SameBucket(p, q) ==
    \E i \in 1..Len(size_map) :
        p \in SeqToSet(size_map[i].val) /\ q \in SeqToSet(size_map[i].val)

InSomeGroup(p) ==
    \E i \in 1..Len(duplicate_groups) : p \in SeqToSet(duplicate_groups[i])

\* the files that lie in a directory one of whose components is a skip name
SkippedFiles ==
    { p \in AllFiles :
        \E d \in AllDirs : p \in SeqToSet(FilePaths(d)) /\ should_skip(d) }

\* the file is not pruned, not filtered by size, and readable at every step
Eligible(p) ==
    /\ p \notin SkippedFiles
    /\ FileSize(p) >= min_size
    /\ p \notin (statFail \cup phFail \cup fhFail)

\* C1 (soundness): every group has at least 2 members, its members come
\* from one size bucket and have the same non-empty full digest; two files
\* with different full digests or of different size buckets never share a
\* group, equal partial digests or not.
C1_Soundness ==
    \A i \in 1..Len(duplicate_groups) :
        LET g == duplicate_groups[i] IN
        /\ Len(g) >= 2
        /\ \A p, q \in SeqToSet(g) :
             /\ SameBucket(p, q)
             /\ FileSize(p) = FileSize(q)
             /\ full_hash(p, fhFail) # <<>>
             /\ full_hash(p, fhFail) = full_hash(q, fhFail)

\* a group was emitted, and a readable file with the same size and the same
\* partial digest as its members, but another content, was full-hashed and
\* kept out of it
C1_Witness ==
    /\ pc = "found"
    /\ \E i \in 1..Len(duplicate_groups) : \E q \in AllFiles :
         LET p == duplicate_groups[i][1] IN
         /\ q \notin SeqToSet(duplicate_groups[i])
         /\ SameBucket(p, q)
         /\ q \notin (phFail \cup fhFail)
         /\ partial_hash(p, {}) = partial_hash(q, {})
         /\ fullHashCalls[q] = 1
         /\ content[p] # content[q]

\* C2 (completeness): when find_duplicates has returned, two distinct files
\* of the same size >= min_size and the same content, not under a skipped
\* directory and readable at stat, partial_hash and full_hash, are in one
\* group; every group is the whole set of such files of its content.
C2_Completeness ==
    pc = "found" =>
      /\ \A p, q \in AllFiles :
           (p # q /\ Eligible(p) /\ Eligible(q) /\ content[p] = content[q])
             => \E i \in 1..Len(duplicate_groups) :
                    {p, q} \subseteq SeqToSet(duplicate_groups[i])
      /\ \A i \in 1..Len(duplicate_groups) :
           SeqToSet(duplicate_groups[i]) =
             { q \in AllFiles :
                 Eligible(q) /\ content[q] = content[duplicate_groups[i][1]] }

\* two eligible files of one content are grouped while a third file of that
\* content is left out because it is pruned, filtered or unreadable
C2_Witness ==
    /\ pc = "found"
    /\ \E p, q, r \in AllFiles :
         /\ p # q /\ Eligible(p) /\ Eligible(q) /\ ~Eligible(r)
         /\ content[p] = content[q] /\ content[q] = content[r]
         /\ \E i \in 1..Len(duplicate_groups) :
               SeqToSet(duplicate_groups[i]) = {p, q}

\* C3 (no double counting): every path occurs at most once in all the
\* groups together: at most once in a group, and in at most one group.
C3_NoDoubleCounting ==
    \A p \in AllFiles : Count(Flatten(duplicate_groups), p) <= 1

\* two groups were emitted from the two partial buckets of one size bucket
C3_Witness ==
    /\ pc = "found"
    /\ Len(duplicate_groups) = 2
    /\ SameBucket(duplicate_groups[1][1], duplicate_groups[2][1])

\* the files that share size bucket and content with p and were read
\* without failure by both hashes
ReadableTwins(p) ==
    { q \in AllFiles :
        /\ SameBucket(p, q)
        /\ content[q] = content[p]
        /\ q \notin (phFail \cup fhFail) }

\* C4 (partial-failure isolation): a file whose partial_hash or full_hash
\* returned "" is in no group; the readable files of its size and content
\* still form one group when there are at least 2 of them; the buckets
\* without an unreadable file yield the groups of their contents.
C4_FailureIsolation ==
    pc = "found" =>
      /\ \A p \in phFail \cup fhFail :
           /\ ~InSomeGroup(p)
           /\ Cardinality(ReadableTwins(p)) >= 2
                => \E i \in 1..Len(duplicate_groups) :
                       SeqToSet(duplicate_groups[i]) = ReadableTwins(p)
      /\ \A k \in 1..Len(size_map) :
           SeqToSet(size_map[k].val) \cap (phFail \cup fhFail) = {}
             => \A p \in SeqToSet(size_map[k].val) :
                  Cardinality(ReadableTwins(p)) >= 2
                    => \E i \in 1..Len(duplicate_groups) :
                           SeqToSet(duplicate_groups[i]) = ReadableTwins(p)

\* one of three files of the same size and content was unreadable and the
\* other two were emitted as a group
C4_Witness ==
    /\ pc = "found"
    /\ \E p \in phFail \cup fhFail :
         /\ Cardinality(ReadableTwins(p)) = 2
         /\ \E i \in 1..Len(duplicate_groups) :
                SeqToSet(duplicate_groups[i]) = ReadableTwins(p)

\* C10 (bounded full reads): full_hash is called at most once per file, and
\* only on a file that shares its size bucket and its non-empty partial
\* digest with another file.
C10_BoundedFullReads ==
    \A p \in AllFiles :
        /\ fullHashCalls[p] <= 1
        /\ fullHashCalls[p] >= 1 =>
             \E q \in AllFiles :
                /\ q # p
                /\ SameBucket(p, q)
                /\ partial_hash(p, phFail) # <<>>
                /\ partial_hash(p, phFail) = partial_hash(q, phFail)

\* in one size bucket two files were full-hashed, one was not because it is
\* alone with its partial digest, and a file alone in its size bucket was
\* not full-hashed either
C10_Witness ==
    /\ pc = "found"
    /\ \E p, q, r \in AllFiles :
         /\ SameBucket(p, q) /\ p # q
         /\ fullHashCalls[p] = 1
         /\ q \notin phFail /\ fullHashCalls[q] = 0
         /\ InSizeMap(r) /\ ~SameBucket(p, r) /\ fullHashCalls[r] = 0

\* =================================================================
\* Properties of pick_keeper (SpecKeeper)
\* =================================================================
\* C5 (keeper determinism): the keeper is the member of the group that is
\* least by (path length, then path), the movers are exactly the other
\* members, and every order of the group gives the same keeper and the
\* same set of movers.
C5_KeeperDeterminism ==
    kLast # NoResult =>
      /\ kLast.keeper \in SeqToSet(kGroup)
      /\ \A q \in SeqToSet(kGroup) \ {kLast.keeper} :
           \/ Len(kLast.keeper) < Len(q)
           \/ Len(kLast.keeper) = Len(q) /\ StrLess(kLast.keeper, q)
      /\ SeqToSet(kLast.movers) = SeqToSet(kGroup) \ {kLast.keeper}
      /\ Len(kLast.movers) = Len(kGroup) - 1
      /\ kLast.keeper = kFirst.keeper
      /\ SeqToSet(kLast.movers) = SeqToSet(kFirst.movers)

\* pick_keeper was applied to a reordered group whose first member is not
\* the keeper and in which two paths of the keeper's length occur
C5_Witness ==
    /\ kLast # NoResult
    /\ kLast.group # kFirst.group
    /\ kGroup[1] # kLast.keeper
    /\ \E q \in SeqToSet(kGroup) :
         q # kLast.keeper /\ Len(q) = Len(kLast.keeper)

\* =================================================================
\* Properties of move_duplicates (SpecMove)
\* =================================================================
Ended == pc \in {"done", "aborted"}

GroupIds == 1..Len(duplicate_groups)

RowsOf(g, actions, path) ==
    { i \in 1..Len(rows) :
        /\ rows[i].group = g
        /\ rows[i].action \in actions
        /\ rows[i].original_path = path }

KeepRows(g) ==
    { i \in 1..Len(rows) : rows[i].group = g /\ rows[i].action = "KEEP" }

MoveActions == {"WOULD_MOVE", "MOVED", "ERROR"}

\* C6 (action plan shape), as claimed: when the run has ended, the report
\* has exactly one KEEP row for every group and one MOVE-type row for every
\* non-keeper member of every group.
C6_PlanShape ==
    Ended =>
      \A g \in GroupIds :
        /\ Cardinality(KeepRows(g)) = 1
        /\ \A m \in SeqToSet(duplicate_groups[g]) :
             m # pick_keeper(duplicate_groups[g]).keeper
               => Cardinality(RowsOf(g, MoveActions, m)) = 1

\* C7 (mover failure isolation), as claimed: a failure while handling a
\* mover never stops the run and is recorded as an ERROR row of that mover;
\* the other movers of the groups that are processed get their rows.
C7_MoverIsolation ==
    /\ pc # "aborted"
    /\ \A m \in failedMovers :
         \E g \in GroupIds : RowsOf(g, {"ERROR"}, m) # {}
    /\ pc = "done" =>
         \A g \in GroupIds \ skippedGroups :
           \A m \in SeqToSet(pick_keeper(duplicate_groups[g]).movers) :
              RowsOf(g, MoveActions, m) # {}

\* C8 (exactly one keeper stays), as claimed: after a live run, of every
\* group exactly the keeper is still at its original path.
C8_ExactlyOneStays ==
    (pc = "done" /\ ~dry_run) =>
      \A g \in GroupIds :
        SeqToSet(duplicate_groups[g]) \ moved
          = { pick_keeper(duplicate_groups[g]).keeper }

\* C8 amended: in a live run the keeper of a group is never the source of a
\* move, and a non-keeper member has left its path exactly when it has a
\* MOVED row; so at least the keeper stays, and only the keeper stays when
\* every mover has a MOVED row.
C8_KeeperStays ==
    ~dry_run =>
      \A g \in GroupIds :
        LET keeper == pick_keeper(duplicate_groups[g]).keeper IN
        /\ keeper \notin moved
        /\ \A h \in GroupIds : RowsOf(h, {"MOVED"}, keeper) = {}
        /\ \A m \in SeqToSet(duplicate_groups[g]) \ {keeper} :
             m \in moved <=> RowsOf(g, {"MOVED"}, m) # {}

\* a live run has ended in which one mover of a group was moved and another
\* mover of the same group was not
C8_Witness ==
    /\ pc = "done"
    /\ ~dry_run
    /\ \E g \in GroupIds : \E m, n \in SeqToSet(duplicate_groups[g]) :
         /\ m \in moved
         /\ n \notin moved
         /\ n # pick_keeper(duplicate_groups[g]).keeper

\* C9 (dry run leaves the files untouched), as claimed: in a dry run no
\* file is moved, no row is MOVED or ERROR, and when the run has ended
\* every mover of every group that has its KEEP row has a WOULD_MOVE row.
C9_DryRun ==
    dry_run =>
      /\ moved = {}
      /\ \A i \in 1..Len(rows) : rows[i].action \notin {"MOVED", "ERROR"}
      /\ Ended =>
           \A g \in GroupIds :
             KeepRows(g) # {} =>
               \A m \in SeqToSet(pick_keeper(duplicate_groups[g]).movers) :
                  RowsOf(g, {"WOULD_MOVE"}, m) # {}

====
